---- MODULE Spec2Model ----
(***************************************************************************)
(* Model of the wireless_client_graph dashboard:                           *)
(*   - MerakiAPIWrapper (meraki_api_utils.py): credentials / scope state,  *)
(*     parameter setup, cached organization and network listing;           *)
(*   - ProjectUI.ui_collect_and_display (project_ui.py): time-window       *)
(*     validation;                                                         *)
(*   - ProjectLogic.collect_network_data_history (project_logic.py);       *)
(*   - ProjectUI.display_graph / download_csv (project_ui.py).             *)
(* Python's None is the string "None", the empty string is "".             *)
(***************************************************************************)
EXTENDS Integers, Sequences, FiniteSets, TLC

None == "None"

\* Python truthiness of an Optional[str]
Truthy(v) == v # None /\ v # ""

---------------------------------------------------------------------------
(* Section 1: MerakiAPIWrapper                                             *)

\* values the callers pass
ApiKeys == {"k1"}
EnvKeys == {None, "kenv"}
OrgIds == {"o1", "o2"}
OrgNames == {"OrgA", "OrgB"}
NetIds == {"n1", "n2"}
NetNames == {"NetA", "NetB"}
TagNames == {"t1", "t2"}
ProductTypes == {"wireless", "appliance"}
ParamNames == {"api_key", "organization_id", "network_id"}

\* a required-parameter dict: each key is absent, or maps to True or False
RequiredMaps == [ParamNames -> {"absent", "true", "false"}]
EmptyMap == [k \in ParamNames |-> "absent"]

\* required_params.get(k, False)
Req(m, k) == m[k] = "true"

VARIABLES
    env_key,                  \* os.getenv("MK_CSM_KEY")
    api_key,                  \* _api_key
    organization_id,          \* _organization_id
    organization_name,        \* _organization_name
    network_id,               \* _network_id
    network_name,             \* _network_name
    enable_caching,           \* _enable_caching
    dashboard,                \* _dashboard: None, or the key the client was built with
    organizations_cache,      \* _organizations_cache
    networks_cache,           \* _networks_cache
    required_app_setup_param, \* _required_app_setup_param
    ret,                      \* value returned by the last call
    last                      \* the last call: its name, its arguments, whether it
                              \* called the upstream

wrapper_fields == <<api_key, organization_id, organization_name, network_id,
                    network_name, enable_caching, dashboard, organizations_cache,
                    networks_cache, required_app_setup_param>>
wrapper_vars == <<env_key, api_key, organization_id, organization_name, network_id,
                  network_name, enable_caching, dashboard, organizations_cache,
                  networks_cache, required_app_setup_param, ret, last>>

\* the time-window form (Section 2)
VARIABLES
    ui,          \* what the app scope shows: "menu", "form", "blank", "nodata", "graph"
    clock,       \* the current UTC time
    now_utc,     \* now_utc, captured before the form is shown
    form,        \* the submitted form: whether it parses, t0_dt, t1_dt
    toast_msg,   \* the last toast of the handler
    collect_arg  \* the (t0_dt, t1_dt) collect_network_data_history was called with

time_vars == <<ui, clock, now_utc, form, toast_msg, collect_arg>>

\* history collection, chart and CSV export (Sections 3 and 4)
VARIABLES
    pc,              \* "idle", "collect", "collected", "shown", "warned"
    has_dashboard,   \* whether get_dashboard() returns a client
    networks_list,   \* the argument of collect_network_data_history
    outcomes,        \* what the upstream did for each network so far
    collected_data,  \* the dict being built, in insertion order
    graph_toast,     \* the warning display_graph ended with, or "none"
    timestamps,      \* display_graph's x axis
    series,          \* the (name, client_counts) lines added to the chart
    total_client_counts,
    csv              \* the rows download_csv wrote, or <<>>

graph_vars == <<pc, has_dashboard, networks_list, outcomes, collected_data,
                graph_toast, timestamps, series, total_client_counts, csv>>

\* the filters of list_networks (Section 5)
VARIABLES
    fetched,      \* the list _get_networks returned
    tags_arg,     \* the filter_tags argument
    ptypes_arg,   \* the filter_product_type argument
    listed        \* the list list_networks returned, once called

filter_vars == <<fetched, tags_arg, ptypes_arg, listed>>

\* app() and the setup wizard, one run per session (Section 6)
VARIABLES
    setup_env,   \* the module-level values of app.py: MK_CSM_KEY, app_setup_param,
                 \* required_app_setup_param
    ui_wrapper,  \* UI.meraki_api_utils: the wrapper object the attribute refers to
    wrappers,    \* the wrapper objects and their fields
    sess         \* each session's run of app(): its position, its locals, what it
                 \* showed and fetched

wizard_vars == <<setup_env, ui_wrapper, wrappers, sess>>

\* the log buffer and its readers (Section 7)
VARIABLES
    log_entries,               \* my_logging.log_entries; an entry records whether every
                               \* session was connected when it was appended
    log_lock,                  \* UI.log_entries_lock: "free" or the thread holding it
    last_displayed_log_index,  \* UI.last_displayed_log_index
    connected,                 \* each session: "new", "open" or "closed"
    poller,                    \* each session's update_log_display thread
    panel,                     \* the entries put in each session's log panel, by
                               \* their position in the buffer, in the order shown
    exporter,                  \* each session's download_logs_as_csv callback
    log_last                   \* the last access to the buffer and whether the thread
                               \* held the lock

log_vars == <<log_entries, log_lock, last_displayed_log_index, connected,
              poller, panel, exporter, log_last>>

vars == <<wrapper_vars, time_vars, graph_vars, filter_vars, wizard_vars, log_vars>>

\* ---- return values ----
RetNone == [tag |-> "none", data |-> <<>>, error |-> "", status |-> FALSE, ok |-> FALSE]
RetBool(b) == [tag |-> "bool", data |-> <<>>, error |-> "", status |-> FALSE, ok |-> b]
RetList(l) == [tag |-> "list", data |-> l, error |-> "", status |-> FALSE, ok |-> FALSE]
\* RetError that never carries a status code
RetError_without_status(kind, withStatus) ==
    [tag |-> "error", data |-> <<>>, error |-> kind, status |-> FALSE, ok |-> FALSE]
RetError(kind, withStatus) ==
    [tag |-> "error", data |-> <<>>, error |-> kind, status |-> withStatus, ok |-> FALSE]

\* ---- the record of a call ----
Call(op, use_cache, key, upstream, req, ptypes) ==
    [op |-> op, use_cache |-> use_cache, key |-> key, upstream |-> upstream,
     req |-> req, ptypes |-> ptypes]
NoCall == Call("init", FALSE, None, FALSE, EmptyMap, {})

\* ---- upstream records ----
\* raw organization as the vendor returns it; "url" and "cloud" stand for the
\* fields that list_organizations keeps and drops
RawOrg(i, n) == [id |-> i, name |-> n, url |-> "u", cloud |-> "c"]
RawNet(i, n, tags, ptypes) ==
    [id |-> i, name |-> n, tags |-> tags, productTypes |-> ptypes, url |-> "u"]

\* ---- caches ----
\* one entry of the _networks_cache dict: absent, or a list
NoEntry == [present |-> FALSE, data |-> <<>>]
Entry(l) == [present |-> TRUE, data |-> l]

\* _is_attr_set
is_attr_set(val) == val # None /\ val # ""

\* set_api_key_value that ignores the key passed in
set_api_key_value_env_only(k, env) == IF Truthy(env) THEN env ELSE None

\* the value set_api_key leaves in _api_key
set_api_key_value(k, env) ==
    IF Truthy(k) THEN k
    ELSE IF Truthy(env) THEN env
    ELSE None

\* _set_attr: new (id, name) pair
set_attr(cur_id, cur_name, id_value, name_value) ==
    IF Truthy(id_value)
    THEN [id |-> id_value, name |-> IF Truthy(name_value) THEN name_value ELSE cur_name]
    ELSE [id |-> cur_id, name |-> cur_name]

\* _check_required_parameter_order without its second test
check_required_parameter_order_first_test_only(required_params) ==
    ~(Req(required_params, "organization_id") /\ ~Req(required_params, "api_key"))

\* _check_required_parameter_order
check_required_parameter_order(required_params) ==
    LET api_key_req == Req(required_params, "api_key")
        org_id_req == Req(required_params, "organization_id")
        net_id_req == Req(required_params, "network_id")
    IN  IF org_id_req /\ ~api_key_req THEN FALSE
        ELSE IF net_id_req /\ (~api_key_req \/ ~org_id_req) THEN FALSE
        ELSE TRUE


\* the length of the non-empty lists the upstream returns
MaxUpstreamLen == 2

AllRawOrgs == <<RawOrg("o1", "OrgA"), RawOrg("o2", "OrgB"), RawOrg("o3", "OrgC")>>
AllRawNets == <<RawNet("n1", "NetA", {"t1"}, {"wireless"}),
                RawNet("n2", "NetB", {}, {"appliance"}),
                RawNet("n3", "NetC", {"t1", "t2"}, {"wireless", "appliance"})>>

Min(a, b) == IF a < b THEN a ELSE b

\* what an upstream call can do: return a list, raise meraki.APIError, raise
\* another exception
Outcome(kind, data) == [kind |-> kind, data |-> data]
OrgOutcomes ==
    {Outcome("ok", SubSeq(AllRawOrgs, 1, n)) : n \in {0, Min(MaxUpstreamLen, Len(AllRawOrgs))}}
    \cup {Outcome("api_error", <<>>), Outcome("exception", <<>>)}
NetOutcomes ==
    {Outcome("ok", SubSeq(AllRawNets, 1, n)) : n \in {0, Min(MaxUpstreamLen, Len(AllRawNets))}}
    \cup {Outcome("api_error", <<>>), Outcome("exception", <<>>)}

\* a cache attribute: None, a list (cache_key None) or a dict keyed by cache_key
NoCache == [isNone |-> TRUE, whole |-> <<>>, dict |-> [o \in OrgIds |-> NoEntry]]

\* setattr(self, cache_attr, value) / getattr(self, cache_attr)[cache_key] = value
store(cache, cache_key, value) ==
    IF cache_key = None
    THEN [isNone |-> FALSE, whole |-> value, dict |-> cache.dict]
    ELSE [isNone |-> FALSE, whole |-> cache.whole,
          dict |-> [cache.dict EXCEPT ![cache_key] = Entry(value)]]

\* cache_hit without the branch for keyed caches
cache_hit_unkeyed_only(cache, cache_key, use_cache, caching) ==
    use_cache /\ caching /\ cache_key = None /\ ~cache.isNone

\* the cache lookup at the head of _fetch_data
cache_hit(cache, cache_key, use_cache, caching) ==
    /\ use_cache /\ caching
    /\ \/ cache_key = None /\ ~cache.isNone
       \/ cache_key # None /\ ~cache.isNone /\ cache.dict[cache_key].present

cached_value(cache, cache_key) ==
    IF cache_key = None THEN cache.whole ELSE cache.dict[cache_key].data

\* get_dashboard: the client after the call (lazily built when a key is set)
get_dashboard(dash, key) ==
    IF dash = None THEN (IF ~Truthy(key) THEN None ELSE key) ELSE dash

\* failure_store that stores nothing
failure_store_nothing(cache, cache_key, caching) == cache

\* what a failed fetch leaves in the cache
failure_store(cache, cache_key, caching) ==
    IF caching THEN store(cache, cache_key, <<>>) ELSE cache

\* what a successful fetch leaves in the cache
success_store(cache, cache_key, caching, data) ==
    IF caching THEN store(cache, cache_key, data) ELSE cache

\* _fetch_data: the value returned, the cache attribute and the client after the
\* call, and whether fetch_func was called
fetch_data(cache, cache_key, use_cache, caching, dash, key, outcome) ==
    IF cache_hit(cache, cache_key, use_cache, caching)
    THEN [ret |-> RetList(cached_value(cache, cache_key)), cache |-> cache,
          dashboard |-> dash, upstream |-> FALSE]
    ELSE LET d == get_dashboard(dash, key)
         IN  IF d = None
             THEN [ret |-> RetError("DashboardAPIError", FALSE), cache |-> cache,
                   dashboard |-> d, upstream |-> FALSE]
             ELSE IF outcome.kind = "ok"
             THEN [ret |-> RetList(outcome.data),
                   cache |-> success_store(cache, cache_key, caching, outcome.data),
                   dashboard |-> d, upstream |-> TRUE]
             ELSE IF outcome.kind = "api_error"
             THEN [ret |-> RetError("MerakiAPIError", TRUE),
                   cache |-> failure_store(cache, cache_key, caching),
                   dashboard |-> d, upstream |-> TRUE]
             ELSE [ret |-> RetError("UnexpectedError", FALSE),
                   cache |-> failure_store(cache, cache_key, caching),
                   dashboard |-> d, upstream |-> TRUE]

\* _get_organizations
get_organizations(use_cache, outcome) ==
    IF dashboard = None
    THEN [ret |-> RetError("DashboardAPIError", FALSE), cache |-> organizations_cache,
          dashboard |-> dashboard, upstream |-> FALSE]
    ELSE fetch_data(organizations_cache, None, use_cache, enable_caching, dashboard,
                    api_key, outcome)

\* organization_id or self.get_organization_id()
org_id_or_current(organization_id_arg) ==
    IF Truthy(organization_id_arg) THEN organization_id_arg ELSE organization_id

\* _get_networks
get_networks(organization_id_arg, use_cache, outcome) ==
    IF dashboard = None
    THEN [ret |-> RetError("DashboardAPIError", FALSE), cache |-> networks_cache,
          dashboard |-> dashboard, upstream |-> FALSE]
    ELSE LET org_id == org_id_or_current(organization_id_arg)
         IN  IF ~Truthy(org_id)
             THEN [ret |-> RetError("NoOrganizationSelected", FALSE),
                   cache |-> networks_cache, dashboard |-> dashboard,
                   upstream |-> FALSE]
             ELSE fetch_data(networks_cache, org_id, use_cache, enable_caching,
                             dashboard, api_key, outcome)

\* the dict list_organizations builds for one organization
FormatOrg(org) == [id |-> org.id, name |-> org.name, url |-> org.url]
\* the dict list_networks builds for one network
FormatNet(net) ==
    [id |-> net.id, name |-> net.name, tags |-> net.tags,
     productTypes |-> net.productTypes]

MapSeq(F(_), s) == [i \in 1..Len(s) |-> F(s[i])]

\* a filter argument: None, or a list of strings (held as the set of its items)
NoFilter == [isNone |-> TRUE, items |-> {}]
FilterOf(items) == [isNone |-> FALSE, items |-> items]
\* "if filter_tags:" is false for None and for the empty list
FilterGiven(f) == ~f.isNone /\ f.items # {}

\* any_match with all() in place of any()
any_match_all(filter_items, network_items) == \A x \in filter_items : x \in network_items

\* any(tag in network_tags for tag in filter_tags)
any_match(filter_items, network_items) == \E x \in filter_items : x \in network_items

tags_match(net, filter_tags) ==
    IF FilterGiven(filter_tags) THEN any_match(filter_tags.items, net.tags) ELSE TRUE

product_type_match(net, filter_product_type) ==
    IF FilterGiven(filter_product_type)
    THEN any_match(filter_product_type.items, net.productTypes)
    ELSE TRUE

\* the loop of list_networks that appends the matching networks in order
RECURSIVE filter_loop(_, _, _, _)
filter_loop(response, filter_tags, filter_product_type, filtered_networks) ==
    IF response = <<>> THEN filtered_networks
    ELSE LET net == Head(response)
             keep == tags_match(net, filter_tags)
                     /\ product_type_match(net, filter_product_type)
         IN  filter_loop(Tail(response), filter_tags, filter_product_type,
                         IF keep THEN Append(filtered_networks, net)
                         ELSE filtered_networks)

\* list_networks on a fetched list: filter, then format
list_networks_result(response, filter_tags, filter_product_type) ==
    IF response = <<>> THEN <<>>
    ELSE LET filtered_networks == filter_loop(response, filter_tags,
                                              filter_product_type, <<>>)
         IN  IF filtered_networks = <<>> THEN <<>>
             ELSE MapSeq(FormatNet, filtered_networks)

\* list_organizations on a fetched list
list_organizations_result(raw_response) ==
    IF raw_response = <<>> THEN <<>> ELSE MapSeq(FormatOrg, raw_response)


\* ---- the wrapper's operations ----

\* MerakiAPIWrapper.__init__(initial_api_key, enable_caching)
wrapper_init(initial_api_key, caching, env) ==
    /\ env_key = env
    /\ api_key = set_api_key_value(initial_api_key, env)
    /\ dashboard = (IF Truthy(set_api_key_value(initial_api_key, env))
                    THEN set_api_key_value(initial_api_key, env) ELSE None)
    /\ organization_id = None
    /\ organization_name = None
    /\ network_id = None
    /\ network_name = None
    /\ enable_caching = caching
    /\ organizations_cache = NoCache
    /\ networks_cache = NoCache
    /\ required_app_setup_param = EmptyMap
    /\ ret = RetNone
    /\ last = NoCall

\* set_api_key that also drops the cached lists
set_api_key_dropping_caches(k) ==
    /\ UNCHANGED <<time_vars, graph_vars, filter_vars, wizard_vars, log_vars>>
    /\ api_key' = set_api_key_value(k, env_key)
    /\ dashboard' = (IF Truthy(api_key') THEN api_key' ELSE None)
    /\ organizations_cache' = NoCache
    /\ networks_cache' = NoCache
    /\ ret' = RetNone
    /\ last' = Call("set_api_key", FALSE, None, FALSE, EmptyMap, {})
    /\ UNCHANGED <<env_key, organization_id, organization_name, network_id,
                   network_name, enable_caching, required_app_setup_param>>

set_api_key(k) ==
    /\ UNCHANGED <<time_vars, graph_vars, filter_vars, wizard_vars, log_vars>>
    /\ api_key' = set_api_key_value(k, env_key)
    /\ dashboard' = (IF Truthy(api_key') THEN api_key' ELSE None)
    /\ ret' = RetNone
    /\ last' = Call("set_api_key", FALSE, None, FALSE, EmptyMap, {})
    /\ UNCHANGED <<env_key, organization_id, organization_name, network_id,
                   network_name, enable_caching, organizations_cache, networks_cache,
                   required_app_setup_param>>

set_organization_id(id_value, name_value) ==
    /\ UNCHANGED <<time_vars, graph_vars, filter_vars, wizard_vars, log_vars>>
    /\ organization_id' = set_attr(organization_id, organization_name, id_value, name_value).id
    /\ organization_name' = set_attr(organization_id, organization_name, id_value, name_value).name
    /\ ret' = RetNone
    /\ last' = Call("set_organization_id", FALSE, None, FALSE, EmptyMap, {})
    /\ UNCHANGED <<env_key, api_key, dashboard, network_id, network_name,
                   enable_caching, organizations_cache, networks_cache,
                   required_app_setup_param>>

set_network_id(id_value, name_value) ==
    /\ UNCHANGED <<time_vars, graph_vars, filter_vars, wizard_vars, log_vars>>
    /\ network_id' = set_attr(network_id, network_name, id_value, name_value).id
    /\ network_name' = set_attr(network_id, network_name, id_value, name_value).name
    /\ ret' = RetNone
    /\ last' = Call("set_network_id", FALSE, None, FALSE, EmptyMap, {})
    /\ UNCHANGED <<env_key, api_key, dashboard, organization_id, organization_name,
                   enable_caching, organizations_cache, networks_cache,
                   required_app_setup_param>>

\* the caching flag after "if enable_caching is not None: self._enable_caching = ..."
\* (caching_arg is None, "true" or "false")
setup_caching(caching_arg, current) ==
    IF caching_arg # None THEN caching_arg = "true" ELSE current

\* the body of setup_application_parameters after the order check passed: the
\* fields it leaves and the value it returns
setup_fields(req, params) ==
    LET api_req == Req(req, "api_key")
        key1 == IF api_req THEN set_api_key_value(params.api_key, env_key) ELSE api_key
        dash1 == IF api_req THEN (IF Truthy(key1) THEN key1 ELSE None) ELSE dashboard
        s0 == [api_key |-> key1, dashboard |-> dash1,
               organization_id |-> organization_id,
               organization_name |-> organization_name,
               network_id |-> network_id, network_name |-> network_name,
               ok |-> TRUE]
        fail(s) == [s EXCEPT !.ok = FALSE]
        org == set_attr(organization_id, organization_name,
                        params.organization_id, params.org_name)
        s1 == [s0 EXCEPT !.organization_id = org.id, !.organization_name = org.name]
        net == set_attr(network_id, network_name, params.network_id, params.net_name)
        net_stage(s) ==
            IF ~Req(req, "network_id") THEN s
            ELSE IF ~is_attr_set(s.api_key) \/ ~is_attr_set(s.organization_id)
            THEN fail(s)
            ELSE IF ~Truthy(params.network_id) THEN fail(s)
            ELSE LET s2 == [s EXCEPT !.network_id = net.id, !.network_name = net.name]
                 IN  IF ~is_attr_set(s2.network_id) THEN fail(s2) ELSE s2
        org_stage(s) ==
            IF ~Req(req, "organization_id") THEN net_stage(s)
            ELSE IF ~is_attr_set(s.api_key) THEN fail(s)
            ELSE IF ~Truthy(params.organization_id) THEN fail(s)
            ELSE IF ~is_attr_set(s1.organization_id) THEN fail(s1)
            ELSE net_stage(s1)
    IN  IF api_req /\ ~is_attr_set(key1) THEN fail(s0) ELSE org_stage(s0)

setup_application_parameters(req, params, caching_arg) ==
    /\ UNCHANGED <<time_vars, graph_vars, filter_vars, wizard_vars, log_vars>>
    /\ enable_caching' = setup_caching(caching_arg, enable_caching)
    /\ last' = Call("setup_application_parameters", FALSE, None, FALSE, req, {})
    /\ IF ~check_required_parameter_order(req)
       THEN /\ ret' = RetBool(FALSE)
            /\ UNCHANGED <<api_key, dashboard, organization_id, organization_name,
                           network_id, network_name, required_app_setup_param>>
       ELSE LET r == setup_fields(req, params)
            IN  /\ required_app_setup_param' = req
                /\ api_key' = r.api_key
                /\ dashboard' = r.dashboard
                /\ organization_id' = r.organization_id
                /\ organization_name' = r.organization_name
                /\ network_id' = r.network_id
                /\ network_name' = r.network_name
                /\ ret' = RetBool(r.ok)
    /\ UNCHANGED <<env_key, organizations_cache, networks_cache>>

list_organizations(use_cache, outcome) ==
    LET r == get_organizations(use_cache, outcome)
    IN  /\ UNCHANGED <<time_vars, graph_vars, filter_vars, wizard_vars, log_vars>>
        /\ organizations_cache' = r.cache
        /\ dashboard' = r.dashboard
        /\ ret' = (IF r.ret.tag = "error" THEN r.ret
                   ELSE RetList(list_organizations_result(r.ret.data)))
        /\ last' = Call("list_organizations", use_cache, None, r.upstream, EmptyMap, {})
        /\ UNCHANGED <<env_key, api_key, organization_id, organization_name,
                       network_id, network_name, enable_caching, networks_cache,
                       required_app_setup_param>>

list_networks(organization_id_arg, use_cache, filter_tags, filter_product_type, outcome) ==
    LET org_id == org_id_or_current(organization_id_arg)
        r == get_networks(organization_id_arg, use_cache, outcome)
    IN  /\ UNCHANGED <<time_vars, graph_vars, filter_vars, wizard_vars, log_vars>>
        /\ UNCHANGED <<env_key, api_key, organization_id, organization_name,
                       network_id, network_name, enable_caching,
                       organizations_cache, required_app_setup_param>>
        /\ IF ~Truthy(org_id)
           THEN /\ ret' = RetError("ConfigurationError", FALSE)
                /\ last' = Call("list_networks", use_cache, None, FALSE, EmptyMap,
                                filter_product_type.items)
                /\ UNCHANGED <<dashboard, networks_cache>>
           ELSE /\ networks_cache' = r.cache
                /\ dashboard' = r.dashboard
                /\ ret' = (IF r.ret.tag = "error" THEN r.ret
                           ELSE RetList(list_networks_result(r.ret.data, filter_tags,
                                                             filter_product_type)))
                /\ last' = Call("list_networks", use_cache, org_id, r.upstream,
                                EmptyMap, filter_product_type.items)

\* ---- the calls the wrapper's clients make ----
KeyInputs == ApiKeys \cup {None, ""}
OrgIdInputs == {"o1", "o2", None}
OrgNameInputs == {"OrgA", None}
NetIdInputs == {"n1", ""}
NetNameInputs == {"NetA", None}
CachingArgs == {None, "true", "false"}
\* every dict over the three keys with values True / absent, and the all-False dict
SetupMaps == [ParamNames -> {"absent", "true"}] \cup {[k \in ParamNames |-> "false"]}
SetupParams ==
    [api_key : {"k1", None}, organization_id : {"o1", None}, org_name : {"OrgA", None},
     network_id : {"n1", None}, net_name : {None}]
WirelessFilter == FilterOf({"wireless"})

\* the setup calls made between list calls
CacheSetupMaps ==
    {[k \in ParamNames |-> IF k \in S THEN "true" ELSE "absent"] :
        S \in {{}, {"api_key"}}}
CacheSetupParams ==
    [api_key : {"k1", None}, organization_id : {None}, org_name : {None},
     network_id : {None}, net_name : {None}]

---------------------------------------------------------------------------
(* Section 2: ProjectUI.ui_collect_and_display, the time-window form       *)

\* timedelta(days=31), in the time unit of the model (one day)
LookbackDays == 31
\* the latest time the clock reaches, and the earliest it starts at
MaxClock == 34
MinClock == 32

Times == 0..(MaxClock + 1)

NoForm == [submitted |-> FALSE, parses |-> FALSE, t0 |-> 0, t1 |-> 0]
NoCollect == [called |-> FALSE, t0 |-> 0, t1 |-> 0]

\* validate_window with the second check written "t1_dt >= now"
validate_window_strict_now(t0_dt, t1_dt, now) ==
    IF t1_dt <= t0_dt THEN "end_not_after_start"
    ELSE IF t1_dt >= now THEN "end_in_future"
    ELSE IF t0_dt < now - LookbackDays THEN "start_too_old"
    ELSE IF t1_dt > t0_dt + LookbackDays THEN "span_too_long"
    ELSE "collecting"

\* validate_window without its third check
validate_window_without_lookback(t0_dt, t1_dt, now) ==
    IF t1_dt <= t0_dt THEN "end_not_after_start"
    ELSE IF t1_dt > now THEN "end_in_future"
    ELSE IF t1_dt > t0_dt + LookbackDays THEN "span_too_long"
    ELSE "collecting"

\* the four boundary checks of ui_collect_and_display, in the order of the code:
\* the toast of the first check that fails, or "collecting" when none fails
validate_window(t0_dt, t1_dt, now) ==
    IF t1_dt <= t0_dt THEN "end_not_after_start"
    ELSE IF t1_dt > now THEN "end_in_future"
    ELSE IF t0_dt < now - LookbackDays THEN "start_too_old"
    ELSE IF t1_dt > t0_dt + LookbackDays THEN "span_too_long"
    ELSE "collecting"

\* the toast ui_collect_and_display ends its validation with
submit_outcome(parses, t0_dt, t1_dt, now) ==
    IF ~parses THEN "invalid_format" ELSE validate_window(t0_dt, t1_dt, now)

\* reaches_collect with the "return" of the third check missing
reaches_collect_after_old_start(outcome) == outcome \in {"collecting", "start_too_old"}

\* whether ui_collect_and_display goes on to collect_network_data_history
reaches_collect(outcome) == outcome = "collecting"

TimeIdle ==
    /\ ui = "menu"
    /\ clock = MinClock
    /\ now_utc = MinClock
    /\ form = NoForm
    /\ toast_msg = "none"
    /\ collect_arg = NoCollect

\* time passes
Tick ==
    /\ clock < MaxClock
    /\ clock' = clock + 1
    /\ UNCHANGED <<ui, now_utc, form, toast_msg, collect_arg>>
    /\ UNCHANGED <<wrapper_vars, graph_vars, filter_vars, wizard_vars, log_vars>>

\* handle_main_menu_action("wireless_client_graph") up to the input_group of
\* ui_collect_and_display; networks_ok is whether list_networks returned a list
open_form(networks_ok) ==
    /\ ui = "menu"
    /\ IF ~networks_ok
       THEN /\ toast_msg' = "error_fetching_networks"
            /\ UNCHANGED <<ui, now_utc>>
       ELSE /\ ui' = "form"
            /\ now_utc' = clock
            /\ toast_msg' = "none"
    /\ form' = NoForm
    /\ collect_arg' = NoCollect
    /\ UNCHANGED clock
    /\ UNCHANGED <<wrapper_vars, graph_vars, filter_vars, wizard_vars, log_vars>>

\* ui_collect_and_display from the return of input_group to its end; shown is what
\* display_graph leaves on the page when the window is accepted
submit_form(parses, t0_dt, t1_dt, shown) ==
    /\ ui = "form"
    /\ form' = [submitted |-> TRUE, parses |-> parses, t0 |-> t0_dt, t1 |-> t1_dt]
    /\ toast_msg' = submit_outcome(parses, t0_dt, t1_dt, now_utc)
    /\ IF reaches_collect(submit_outcome(parses, t0_dt, t1_dt, now_utc))
       THEN /\ collect_arg' = [called |-> TRUE, t0 |-> t0_dt, t1 |-> t1_dt]
            /\ ui' = shown
       ELSE /\ collect_arg' = NoCollect
            /\ ui' = "blank"
    /\ UNCHANGED <<clock, now_utc>>
    /\ UNCHANGED <<wrapper_vars, graph_vars, filter_vars, wizard_vars, log_vars>>

\* the Back button of display_graph: app_main_menu
back_to_menu ==
    /\ ui = "graph"
    /\ ui' = "menu"
    /\ UNCHANGED <<clock, now_utc, form, toast_msg, collect_arg>>
    /\ UNCHANGED <<wrapper_vars, graph_vars, filter_vars, wizard_vars, log_vars>>

---------------------------------------------------------------------------
(* Section 3: ProjectLogic.collect_network_data_history                    *)
(* Section 4: ProjectUI.display_graph and its download_csv                 *)

\* the most networks in a list, and the most samples in a history
MaxNets == 2
MaxSamples == 2

\* the network dicts handed to collect_network_data_history; the second one has
\* no "name" key
NetPool == <<[id |-> "n1", has_name |-> TRUE, name |-> "NetA"],
             [id |-> "n2", has_name |-> FALSE, name |-> ""],
             [id |-> "n3", has_name |-> TRUE, name |-> "NetC"]>>
NetworkLists == {SubSeq(NetPool, 1, n) : n \in 0..Min(MaxNets, Len(NetPool))}

\* network.get('name', f"Unnamed Network ({network_id})")
network_name_of(network) ==
    IF network.has_name THEN network.name
    ELSE CASE network.id = "n1" -> "Unnamed Network (n1)"
           [] network.id = "n2" -> "Unnamed Network (n2)"
           [] OTHER -> "Unnamed Network (n3)"

\* a clientCount: the key is absent, the value is null, or an integer
ClientCounts == {[kind |-> "absent", v |-> 0], [kind |-> "null", v |-> 0],
                 [kind |-> "int", v |-> 1]}
\* sample number i of a history: startTs is minute i, zero seconds
Sample(i, cc) == [startTs |-> [minute |-> i, second |-> 0], clientCount |-> cc]
Histories ==
    UNION {{[i \in 1..n |-> Sample(i, c[i])] : c \in [1..n -> ClientCounts]} :
              n \in 0..MaxSamples}

\* what getNetworkWirelessClientCountHistory can do for one network
HistoryOutcomes ==
    {Outcome("ok", h) : h \in Histories}
    \cup {Outcome("api_error", <<>>), Outcome("exception", <<>>)}

GraphIdle ==
    /\ pc = "idle"
    /\ has_dashboard = FALSE
    /\ networks_list = <<>>
    /\ outcomes = <<>>
    /\ collected_data = <<>>
    /\ graph_toast = "none"
    /\ timestamps = <<>>
    /\ series = <<>>
    /\ total_client_counts = <<>>
    /\ csv = <<>>

\* dict_put that starts a new dict at every assignment
dict_put_fresh(d, key, value) == <<[id |-> key, info |-> value]>>

\* collected_data[network_id] = value, on a dict held in insertion order
dict_put(d, key, value) ==
    IF \E j \in 1..Len(d) : d[j].id = key
    THEN [j \in 1..Len(d) |-> IF d[j].id = key THEN [id |-> key, info |-> value] ELSE d[j]]
    ELSE Append(d, [id |-> key, info |-> value])

\* the entry one pass of the loop stores for a network
collected_entry(network, outcome) ==
    IF outcome.kind = "ok"
    THEN [name |-> network_name_of(network), history |-> outcome.data]
    ELSE [name |-> network_name_of(network), history |-> <<>>]

\* collect_network_data_history is entered with a list of networks
collect_start(nets, dash) ==
    /\ pc = "idle"
    /\ networks_list' = nets
    /\ has_dashboard' = dash
    /\ outcomes' = <<>>
    /\ collected_data' = <<>>
    /\ pc' = (IF dash THEN "collect" ELSE "collected")
    /\ UNCHANGED <<graph_toast, timestamps, series, total_client_counts, csv>>
    /\ UNCHANGED <<wrapper_vars, time_vars, filter_vars, wizard_vars, log_vars>>

\* the loop is over, the dict is returned
collect_return ==
    /\ pc = "collect"
    /\ Len(outcomes) = Len(networks_list)
    /\ pc' = "collected"
    /\ UNCHANGED <<has_dashboard, networks_list, outcomes, collected_data,
                   graph_toast, timestamps, series, total_client_counts, csv>>
    /\ UNCHANGED <<wrapper_vars, time_vars, filter_vars, wizard_vars, log_vars>>

\* one pass of the loop: the upstream call for the next network and its handlers
collect_step(outcome) ==
    /\ pc = "collect"
    /\ Len(outcomes) < Len(networks_list)
    /\ LET network == networks_list[Len(outcomes) + 1]
       IN  collected_data' = dict_put(collected_data, network.id,
                                      collected_entry(network, outcome))
    /\ outcomes' = Append(outcomes, outcome)
    /\ UNCHANGED <<pc, has_dashboard, networks_list, graph_toast, timestamps, series,
                   total_client_counts, csv>>
    /\ UNCHANGED <<wrapper_vars, time_vars, filter_vars, wizard_vars, log_vars>>

\* datetime.fromisoformat(...).strftime('%Y-%m-%d %H:%M'): the seconds are dropped
format_ts(startTs) == startTs.minute

\* entry['clientCount'] if entry.get('clientCount') is not None else 0
chart_count(entry) ==
    IF entry.clientCount.kind = "int" THEN entry.clientCount.v ELSE 0

\* the first non-empty history of graph_data, in dict order (<<>> when none)
RECURSIVE first_network_history(_)
first_network_history(graph_data) ==
    IF graph_data = <<>> THEN <<>>
    ELSE IF Head(graph_data).info.history # <<>> THEN Head(graph_data).info.history
    ELSE first_network_history(Tail(graph_data))

\* is_plotted that also takes a history longer than the x axis
is_plotted_or_longer(info, data_length) ==
    info.history # <<>> /\ Len(info.history) >= data_length

\* whether the plotting loop of display_graph adds a network as a series
is_plotted(info, data_length) ==
    info.history # <<>> /\ Len(info.history) = data_length

\* the plotting loop of display_graph: the series added and the running total
RECURSIVE plot_loop(_, _, _, _)
plot_loop(graph_data, data_length, lines, total) ==
    IF graph_data = <<>> THEN [series |-> lines, total |-> total]
    ELSE LET info == Head(graph_data).info
             client_counts == MapSeq(chart_count, info.history)
         IN  IF is_plotted(info, data_length)
             THEN plot_loop(Tail(graph_data), data_length,
                            Append(lines, [name |-> info.name, counts |-> client_counts]),
                            [i \in 1..data_length |-> total[i] + client_counts[i]])
             ELSE plot_loop(Tail(graph_data), data_length, lines, total)

\* display_graph(graph_data, ...)
display_graph ==
    /\ pc = "collected"
    /\ LET graph_data == collected_data
           first == first_network_history(graph_data)
           data_length == Len(first)
           plot == plot_loop(graph_data, data_length, <<>>, [i \in 1..data_length |-> 0])
       IN  IF graph_data = <<>>
           THEN /\ graph_toast' = "no_network_data"
                /\ pc' = "warned"
                /\ UNCHANGED <<timestamps, series, total_client_counts>>
           ELSE IF first = <<>>
           THEN /\ graph_toast' = "no_client_history"
                /\ pc' = "warned"
                /\ UNCHANGED <<timestamps, series, total_client_counts>>
           ELSE IF plot.series = <<>>
           THEN /\ graph_toast' = "no_valid_history"
                /\ pc' = "warned"
                /\ timestamps' = [i \in 1..data_length |-> format_ts(first[i].startTs)]
                /\ UNCHANGED <<series, total_client_counts>>
           ELSE /\ graph_toast' = "none"
                /\ pc' = "shown"
                /\ timestamps' = [i \in 1..data_length |-> format_ts(first[i].startTs)]
                /\ series' = plot.series
                /\ total_client_counts' = plot.total
    /\ UNCHANGED <<has_dashboard, networks_list, outcomes, collected_data, csv>>
    /\ UNCHANGED <<wrapper_vars, time_vars, filter_vars, wizard_vars, log_vars>>

\* a CSV cell: text, a timestamp, an integer, or None (written as an empty cell)
TextCell(t) == [kind |-> "text", text |-> t, num |-> 0]
TimeCell(m) == [kind |-> "time", text |-> "", num |-> m]
IntCell(n) == [kind |-> "int", text |-> "", num |-> n]
NullCell == [kind |-> "null", text |-> "", num |-> 0]

\* client_history[i]['clientCount'] if i < len(client_history) and
\* 'clientCount' in client_history[i] else 0     (i is 1-based here)
csv_count(client_history, i) ==
    IF i <= Len(client_history) /\ client_history[i].clientCount.kind # "absent"
    THEN (IF client_history[i].clientCount.kind = "int"
          THEN IntCell(client_history[i].clientCount.v)
          ELSE NullCell)
    ELSE IntCell(0)

csv_header(graph_data) ==
    <<TextCell("Timestamp")>> \o [j \in 1..Len(graph_data) |-> TextCell(graph_data[j].info.name)]

\* csv_row that writes a cell only for the networks that have sample i
csv_row_present_only(graph_data, ts, i) ==
    <<TimeCell(ts[i])>>
    \o MapSeq(LAMBDA e : csv_count(e.info.history, i),
              SelectSeq(graph_data, LAMBDA e : i <= Len(e.info.history)))

csv_row(graph_data, ts, i) ==
    <<TimeCell(ts[i])>> \o [j \in 1..Len(graph_data) |-> csv_count(graph_data[j].info.history, i)]

\* the rows download_csv writes
csv_rows(graph_data, ts) ==
    <<csv_header(graph_data)>> \o [i \in 1..Len(ts) |-> csv_row(graph_data, ts, i)]

\* the "Download Data as CSV" button
download_csv ==
    /\ pc = "shown"
    /\ csv' = csv_rows(collected_data, timestamps)
    /\ UNCHANGED <<pc, has_dashboard, networks_list, outcomes, collected_data,
                   graph_toast, timestamps, series, total_client_counts>>
    /\ UNCHANGED <<wrapper_vars, time_vars, filter_vars, wizard_vars, log_vars>>

---------------------------------------------------------------------------
(* Section 5: the filtering of list_networks on arbitrary fetched lists    *)

\* the longest fetched list
MaxFetched == 2

FetchedIds == <<"n1", "n2", "n3">>
FetchedNames == <<"NetA", "NetB", "NetC">>
\* every list of up to MaxFetched networks, each with any tags and product types
FetchedLists ==
    UNION {{[i \in 1..n |-> RawNet(FetchedIds[i], FetchedNames[i], t[i], p[i])] :
               t \in [1..n -> SUBSET TagNames], p \in [1..n -> SUBSET ProductTypes]} :
              n \in 0..Min(MaxFetched, Len(FetchedIds))}
TagFilters == {NoFilter} \cup {FilterOf(S) : S \in SUBSET TagNames}
ProductTypeFilters == {NoFilter} \cup {FilterOf(S) : S \in SUBSET ProductTypes}

NotListed == [called |-> FALSE, result |-> <<>>]

FilterIdle ==
    /\ fetched = <<>>
    /\ tags_arg = NoFilter
    /\ ptypes_arg = NoFilter
    /\ listed = NotListed

\* the part of list_networks that follows a fetch that returned a list
filter_call ==
    /\ ~listed.called
    /\ listed' = [called |-> TRUE,
                  result |-> list_networks_result(fetched, tags_arg, ptypes_arg)]
    /\ UNCHANGED <<fetched, tags_arg, ptypes_arg>>
    /\ UNCHANGED <<wrapper_vars, time_vars, graph_vars, wizard_vars, log_vars>>

---------------------------------------------------------------------------
(* Section 6: app() and PyWebIOApp.app_setup, one run per session          *)

\* the browser sessions; each runs app() once, in its own thread
Sessions == {"s1", "s2"}
\* the wrapper PyWebIOApp.__init__ builds ("w0") and the one the app_setup of
\* each session builds
WrapperIds == {"w0", "w1", "w2"}
WrapperOf(s) == IF s = "s1" THEN "w1" ELSE "w2"
\* the key the user of a session types
KeyOf(s) == IF s = "s1" THEN "kA" ELSE "kB"

\* MerakiAPIWrapper(initial_api_key=...): the fields app_setup depends on
NewWrapper(initial_api_key, env) ==
    [api_key |-> set_api_key_value(initial_api_key, env),
     organization_id |-> None, network_id |-> None, required |-> EmptyMap]

\* a process: the environment key with the api_key entry of app_setup_param
\* (which app.py reads from the same environment variable), the other entries of
\* app_setup_param, and the required map
SetupEnvs ==
    {[env_key |-> k.env,
      params |-> [api_key |-> k.param, organization_id |-> o, network_id |-> n],
      required |-> r] :
        k \in {[env |-> None, param |-> None], [env |-> "kenv", param |-> "kenv"],
               [env |-> None, param |-> "k1"]},
        o \in {None, "o1", "o9"},
        n \in {None, "n1", "n9"},
        r \in {[api_key |-> "true", organization_id |-> "true", network_id |-> "false"],
               [api_key |-> "true", organization_id |-> "true", network_id |-> "true"],
               [api_key |-> "true", organization_id |-> "false", network_id |-> "false"],
               [api_key |-> "true", organization_id |-> "false", network_id |-> "true"],
               [api_key |-> "false", organization_id |-> "true", network_id |-> "false"]}}

\* setup_application_parameters on a wrapper object: the wrapper after the call
\* and the value returned
wizard_setup(wr, req, params, env) ==
    IF ~check_required_parameter_order(req) THEN [w |-> wr, ok |-> FALSE]
    ELSE LET w1 == [wr EXCEPT !.required = req]
             w2 == IF Req(req, "api_key")
                   THEN [w1 EXCEPT !.api_key = set_api_key_value(params.api_key, env)]
                   ELSE w1
             w3 == [w2 EXCEPT !.organization_id = params.organization_id]
             w4 == [w3 EXCEPT !.network_id = params.network_id]
         IN  IF Req(req, "api_key") /\ ~is_attr_set(w2.api_key)
             THEN [w |-> w2, ok |-> FALSE]
             ELSE IF ~Req(req, "organization_id") THEN [w |-> w2, ok |-> TRUE]
             ELSE IF ~is_attr_set(w2.api_key) \/ ~Truthy(params.organization_id)
             THEN [w |-> w2, ok |-> FALSE]
             ELSE IF ~Req(req, "network_id") THEN [w |-> w3, ok |-> TRUE]
             ELSE IF ~Truthy(params.network_id) THEN [w |-> w3, ok |-> FALSE]
             ELSE [w |-> w4, ok |-> TRUE]

\* check_current_parameters_status: its first component
check_current_parameters_status(wr) ==
    /\ wr.required # EmptyMap
    /\ check_required_parameter_order(wr.required)
    /\ Req(wr.required, "api_key") => is_attr_set(wr.api_key)
    /\ Req(wr.required, "organization_id") => is_attr_set(wr.organization_id)
    /\ Req(wr.required, "network_id") => is_attr_set(wr.network_id)

\* a session that has not started app()
NewSession ==
    [pc |-> "new", organizations |-> <<>>, networks |-> <<>>, result |-> "running",
     entered_key |-> None, picked_org |-> None, picked_net |-> None,
     orgs_result |-> "none", nets_result |-> "none",
     org_fetched |-> FALSE, net_fetched |-> FALSE,
     org_prompted |-> FALSE, net_prompted |-> FALSE,
     toasts |-> {}, menu |-> FALSE]

WizardIdle ==
    /\ setup_env = [env_key |-> None,
                    params |-> [api_key |-> None, organization_id |-> None,
                                network_id |-> None],
                    required |-> EmptyMap]
    /\ ui_wrapper = "w0"
    /\ wrappers = [w \in WrapperIds |-> NewWrapper(None, None)]
    /\ sess = [s \in Sessions |-> NewSession]

\* the step that follows the API-key step, and the one that follows the
\* organization step
after_org(req) == IF Req(req, "network_id") THEN "nets" ELSE "check"

\* after_key that goes to the networks before the organizations
after_key_networks_first(req) ==
    IF Req(req, "network_id") THEN "nets"
    ELSE IF Req(req, "organization_id") THEN "orgs" ELSE "check"

after_key(req) == IF Req(req, "organization_id") THEN "orgs" ELSE after_org(req)

\* app_setup returns None with a toast, and app() shows its own and returns
Fail(ss, toast) ==
    [ss EXCEPT !.pc = "end", !.result = "sentinel",
               !.toasts = @ \cup {toast, "setup_failed"}]

\* the ids of an upstream list
IdsOf(data) == [i \in 1..Len(data) |-> data[i].id]
InList(v, ids) == \E i \in 1..Len(ids) : ids[i] = v

\* what retrieve_organizations / retrieve_networks make of a list call: "error",
\* "empty" or "ok"
retrieve_kind(configured, outcome) ==
    IF ~configured \/ outcome.kind # "ok" THEN "error"
    ELSE IF outcome.data = <<>> THEN "empty" ELSE "ok"

\* retrieve_aborts that lets an empty list through
retrieve_aborts_on_error_only(kind) == kind = "error"

\* whether retrieve_organizations / retrieve_networks return None
retrieve_aborts(kind) == kind \in {"error", "empty"}

\* app(): app_setup builds a wrapper, stores it in the UI object, runs
\* setup_application_parameters on it and decides whether to prompt for a key
app_start(s) ==
    /\ sess[s].pc = "new"
    /\ LET req == setup_env.required
           params == setup_env.params
           r == wizard_setup(NewWrapper(params.api_key, setup_env.env_key), req, params,
                             setup_env.env_key)
       IN  /\ ui_wrapper' = WrapperOf(s)
           /\ wrappers' = [wrappers EXCEPT ![WrapperOf(s)] = r.w]
           /\ sess' = [sess EXCEPT ![s] =
                  [@ EXCEPT !.pc = IF Req(req, "api_key") /\ ~is_attr_set(r.w.api_key)
                                   THEN "key_prompt" ELSE after_key(req),
                            !.toasts = IF r.ok THEN @ ELSE @ \cup {"initial_setup_failed"}]]
    /\ UNCHANGED setup_env
    /\ UNCHANGED <<wrapper_vars, time_vars, graph_vars, filter_vars, log_vars>>

\* get_valid_api_key: the user answers the prompt
key_entry(s, entry) ==
    /\ sess[s].pc = "key_prompt"
    /\ IF ~Truthy(entry)
       THEN /\ sess' = [sess EXCEPT ![s] = Fail(@, "api_key_required")]
            /\ UNCHANGED wrappers
       ELSE LET k == set_api_key_value(entry, setup_env.env_key)
            IN  /\ wrappers' = [wrappers EXCEPT ![ui_wrapper].api_key = k]
                /\ sess' = [sess EXCEPT ![s] =
                       [@ EXCEPT !.entered_key = entry,
                                 !.pc = IF is_attr_set(k) THEN after_key(setup_env.required)
                                        ELSE "key_prompt",
                                 !.toasts = IF is_attr_set(k) THEN @
                                            ELSE @ \cup {"invalid_api_key"}]]
    /\ UNCHANGED <<setup_env, ui_wrapper>>
    /\ UNCHANGED <<wrapper_vars, time_vars, graph_vars, filter_vars, log_vars>>

\* select_organization / select_network: whether the pre-supplied id is taken
select_preset(param, ids) == param # None /\ InList(param, ids)

\* retrieve_organizations, then select_organization up to its prompt
retrieve_organizations(s, outcome) ==
    /\ sess[s].pc = "orgs"
    /\ LET wr == wrappers[ui_wrapper]
           configured == is_attr_set(wr.api_key)
           kind == retrieve_kind(configured, outcome)
           ids == IdsOf(outcome.data)
           param == setup_env.params.organization_id
           org_id_to_validate ==
               IF param = None /\ is_attr_set(wr.organization_id)
               THEN wr.organization_id ELSE param
       IN  IF retrieve_aborts(kind)
           THEN /\ sess' = [sess EXCEPT ![s] =
                       Fail([@ EXCEPT !.orgs_result = kind, !.org_fetched = configured],
                            "organizations_error")]
                /\ UNCHANGED wrappers
           ELSE IF select_preset(org_id_to_validate, ids)
           THEN /\ wrappers' = [wrappers EXCEPT
                                  ![ui_wrapper].organization_id = org_id_to_validate]
                /\ sess' = [sess EXCEPT ![s] =
                       [@ EXCEPT !.orgs_result = kind, !.org_fetched = TRUE,
                                 !.organizations = ids,
                                 !.picked_org = org_id_to_validate,
                                 !.pc = after_org(setup_env.required)]]
           ELSE /\ sess' = [sess EXCEPT ![s] =
                       [@ EXCEPT !.orgs_result = kind, !.org_fetched = TRUE,
                                 !.organizations = ids,
                                 !.org_prompted = TRUE,
                                 !.toasts = IF org_id_to_validate # None
                                            THEN @ \cup {"invalid_organization"} ELSE @,
                                 !.pc = "org_prompt"]]
                /\ UNCHANGED wrappers
    /\ UNCHANGED <<setup_env, ui_wrapper>>
    /\ UNCHANGED <<wrapper_vars, time_vars, graph_vars, filter_vars, log_vars>>

\* select_organization: the user answers the prompt
org_pick(s, choice) ==
    /\ sess[s].pc = "org_prompt"
    /\ choice = "" \/ InList(choice, sess[s].organizations)
    /\ IF ~Truthy(choice)
       THEN /\ sess' = [sess EXCEPT ![s] = Fail(@, "organization_required")]
            /\ UNCHANGED wrappers
       ELSE /\ wrappers' = [wrappers EXCEPT ![ui_wrapper].organization_id = choice]
            /\ sess' = [sess EXCEPT ![s] =
                   [@ EXCEPT !.picked_org = choice, !.pc = after_org(setup_env.required)]]
    /\ UNCHANGED <<setup_env, ui_wrapper>>
    /\ UNCHANGED <<wrapper_vars, time_vars, graph_vars, filter_vars, log_vars>>

\* retrieve_networks, then select_network up to its prompt
retrieve_networks(s, outcome) ==
    /\ sess[s].pc = "nets"
    /\ LET wr == wrappers[ui_wrapper]
           configured == Truthy(wr.organization_id) /\ is_attr_set(wr.api_key)
           kind == retrieve_kind(configured, outcome)
           ids == IdsOf(outcome.data)
           param == setup_env.params.network_id
           net_id_to_validate ==
               IF param = None /\ is_attr_set(wr.network_id)
               THEN wr.network_id ELSE param
       IN  IF retrieve_aborts(kind)
           THEN /\ sess' = [sess EXCEPT ![s] =
                       Fail([@ EXCEPT !.nets_result = kind, !.net_fetched = configured],
                            "networks_error")]
                /\ UNCHANGED wrappers
           ELSE IF select_preset(net_id_to_validate, ids)
           THEN /\ wrappers' = [wrappers EXCEPT
                                  ![ui_wrapper].network_id = net_id_to_validate]
                /\ sess' = [sess EXCEPT ![s] =
                       [@ EXCEPT !.nets_result = kind, !.net_fetched = TRUE,
                                 !.networks = ids,
                                 !.picked_net = net_id_to_validate,
                                 !.pc = "check"]]
           ELSE /\ sess' = [sess EXCEPT ![s] =
                       [@ EXCEPT !.nets_result = kind, !.net_fetched = TRUE,
                                 !.networks = ids,
                                 !.net_prompted = TRUE,
                                 !.toasts = IF net_id_to_validate # None
                                            THEN @ \cup {"invalid_network"} ELSE @,
                                 !.pc = "net_prompt"]]
                /\ UNCHANGED wrappers
    /\ UNCHANGED <<setup_env, ui_wrapper>>
    /\ UNCHANGED <<wrapper_vars, time_vars, graph_vars, filter_vars, log_vars>>

\* select_network: the user answers the prompt
net_pick(s, choice) ==
    /\ sess[s].pc = "net_prompt"
    /\ choice = "" \/ InList(choice, sess[s].networks)
    /\ IF ~Truthy(choice)
       THEN /\ sess' = [sess EXCEPT ![s] = Fail(@, "network_required")]
            /\ UNCHANGED wrappers
       ELSE /\ wrappers' = [wrappers EXCEPT ![ui_wrapper].network_id = choice]
            /\ sess' = [sess EXCEPT ![s] = [@ EXCEPT !.picked_net = choice, !.pc = "check"]]
    /\ UNCHANGED <<setup_env, ui_wrapper>>
    /\ UNCHANGED <<wrapper_vars, time_vars, graph_vars, filter_vars, log_vars>>

\* all_set, missing = self.meraki_api_utils.check_current_parameters_status()
check_parameters(s) ==
    /\ sess[s].pc = "check"
    /\ sess' = [sess EXCEPT ![s] =
           IF check_current_parameters_status(wrappers[ui_wrapper])
           THEN [@ EXCEPT !.pc = "return"]
           ELSE Fail(@, "missing_parameters")]
    /\ UNCHANGED <<setup_env, ui_wrapper, wrappers>>
    /\ UNCHANGED <<wrapper_vars, time_vars, graph_vars, filter_vars, log_vars>>

\* return self.meraki_api_utils
return_wrapper(s) ==
    /\ sess[s].pc = "return"
    /\ sess' = [sess EXCEPT ![s] = [@ EXCEPT !.pc = "returned", !.result = ui_wrapper]]
    /\ UNCHANGED <<setup_env, ui_wrapper, wrappers>>
    /\ UNCHANGED <<wrapper_vars, time_vars, graph_vars, filter_vars, log_vars>>

\* the positional arguments ProjectUI.__init__ takes after self, and the number
\* app() passes
ProjectUIParams == 2
ProjectUIArgs == 3

\* app() after app_setup returned a wrapper: ProjectLogic(...), ProjectUI(...) and
\* app_main_menu(); a TypeError of the constructor is caught by app()
build_project_ui(s) ==
    /\ sess[s].pc = "returned"
    /\ sess' = [sess EXCEPT ![s] =
           IF ProjectUIArgs = ProjectUIParams
           THEN [@ EXCEPT !.pc = "end", !.menu = TRUE]
           ELSE [@ EXCEPT !.pc = "end", !.toasts = @ \cup {"startup_error"}]]
    /\ UNCHANGED <<setup_env, ui_wrapper, wrappers>>
    /\ UNCHANGED <<wrapper_vars, time_vars, graph_vars, filter_vars, log_vars>>

---------------------------------------------------------------------------
(* Section 7: the log buffer, ListHandler.emit, update_log_display and      *)
(* download_logs_as_csv                                                    *)

\* the sessions' own threads log while the buffer is shorter than this
MaxLog == 2

\* the threads of a session: the one that runs app() and its callbacks, and the
\* one that runs update_log_display
MainThread(s) == IF s = "s1" THEN "m1" ELSE "m2"
PollThread(s) == IF s = "s1" THEN "p1" ELSE "p2"

\* a buffer access: ListHandler.emit ("append"), len(log_entries) ("len"),
\* log_entries[i] ("read_entry"), the iteration of the CSV export ("csv_read")
Access(thread, op) == [op |-> op, held |-> log_lock = thread]

\* log_entries.append(log_entry)
emit_entry(entries) ==
    Append(entries, [both |-> \A s \in Sessions : connected[s] = "open"])

\* a polling thread outside a pass of its loop holds no snapshot
PollerAt(at) == [pc |-> at, current_log_count |-> 0]

LogIdle ==
    /\ log_entries = <<>>
    /\ log_lock = "free"
    /\ last_displayed_log_index = 0
    /\ connected = [s \in Sessions |-> "new"]
    /\ poller = [s \in Sessions |-> PollerAt("unborn")]
    /\ panel = [s \in Sessions |-> <<>>]
    /\ exporter = [s \in Sessions |-> "idle"]
    /\ log_last = [op |-> "none", held |-> FALSE]

\* a browser connects: app() creates and starts the session's polling thread
session_open(s) ==
    /\ connected[s] = "new"
    /\ connected' = [connected EXCEPT ![s] = "open"]
    /\ poller' = [poller EXCEPT ![s] = PollerAt("start")]
    /\ UNCHANGED <<log_entries, log_lock, last_displayed_log_index, panel,
                   exporter, log_last>>
    /\ UNCHANGED <<wrapper_vars, time_vars, graph_vars, filter_vars, wizard_vars>>

\* the browser of a session goes away
disconnect(s) ==
    /\ connected[s] = "open"
    /\ connected' = [connected EXCEPT ![s] = "closed"]
    /\ UNCHANGED <<log_entries, log_lock, last_displayed_log_index, poller,
                   panel, exporter, log_last>>
    /\ UNCHANGED <<wrapper_vars, time_vars, graph_vars, filter_vars, wizard_vars>>

\* ListHandler.emit, called by a logger call of a session's own thread
emit(s) ==
    /\ connected[s] = "open"
    /\ Len(log_entries) < MaxLog
    /\ log_entries' = emit_entry(log_entries)
    /\ log_last' = Access(MainThread(s), "append")
    /\ UNCHANGED <<log_lock, last_displayed_log_index, connected, poller, panel,
                   exporter>>
    /\ UNCHANGED <<wrapper_vars, time_vars, graph_vars, filter_vars, wizard_vars>>

\* update_log_display: logger.info("Starting log display update thread.")
poll_start(s) ==
    /\ poller[s].pc = "start"
    /\ log_entries' = emit_entry(log_entries)
    /\ log_last' = Access(PollThread(s), "append")
    /\ poller' = [poller EXCEPT ![s] = PollerAt("lock")]
    /\ UNCHANGED <<log_lock, last_displayed_log_index, connected, panel, exporter>>
    /\ UNCHANGED <<wrapper_vars, time_vars, graph_vars, filter_vars, wizard_vars>>

\* with self.log_entries_lock: current_log_count = len(log_entries)
poll_snapshot(s) ==
    /\ poller[s].pc = "lock"
    /\ log_lock = "free"
    /\ poller' = [poller EXCEPT ![s] =
           [pc |-> "compare", current_log_count |-> Len(log_entries)]]
    /\ log_last' = [op |-> "len", held |-> TRUE]
    /\ UNCHANGED <<log_entries, log_lock, last_displayed_log_index, connected,
                   panel, exporter>>
    /\ UNCHANGED <<wrapper_vars, time_vars, graph_vars, filter_vars, wizard_vars>>

\* whether a pass of the loop makes a PyWebIO call at all
poll_touches_session(current_log_count, index) == current_log_count > index

\* if current_log_count > self.last_displayed_log_index: ... ; time.sleep(2)
poll_compare(s) ==
    /\ poller[s].pc = "compare"
    /\ poller' = [poller EXCEPT ![s] =
           IF poll_touches_session(@.current_log_count, last_displayed_log_index)
           THEN [@ EXCEPT !.pc = "display"] ELSE PollerAt("lock")]
    /\ UNCHANGED <<log_entries, log_lock, last_displayed_log_index, connected, panel,
                   exporter, log_last>>
    /\ UNCHANGED <<wrapper_vars, time_vars, graph_vars, filter_vars, wizard_vars>>

\* display_range that shows the buffer from its start at every pass
display_range_from_start(index, current_log_count) ==
    [k \in 1..current_log_count |-> k]

\* range(self.last_displayed_log_index, current_log_count): the entries a pass
\* displays, by their position in the buffer (1-based), in order
display_range(index, current_log_count) ==
    [k \in 1..(current_log_count - index) |-> index + k]

\* with use_scope(...): for i in range(self.last_displayed_log_index,
\* current_log_count): put_text(log_entries[i]); then
\* self.last_displayed_log_index = current_log_count. On a closed session the
\* first PyWebIO call raises SessionNotFoundException: the thread logs and stops.
poll_display(s) ==
    /\ poller[s].pc = "display"
    /\ IF connected[s] = "closed"
       THEN /\ poller' = [poller EXCEPT ![s] = PollerAt("stopped")]
            /\ log_entries' = emit_entry(log_entries)
            /\ log_last' = Access(PollThread(s), "append")
            /\ UNCHANGED <<panel, last_displayed_log_index>>
       ELSE LET shown == display_range(last_displayed_log_index,
                                       poller[s].current_log_count)
            IN  /\ poller' = [poller EXCEPT ![s] = PollerAt("lock")]
                /\ panel' = [panel EXCEPT ![s] = @ \o shown]
                /\ last_displayed_log_index' = poller[s].current_log_count
                /\ log_last' = (IF shown = <<>> THEN log_last
                                ELSE Access(PollThread(s), "read_entry"))
                /\ UNCHANGED log_entries
    /\ UNCHANGED <<log_lock, connected, exporter>>
    /\ UNCHANGED <<wrapper_vars, time_vars, graph_vars, filter_vars, wizard_vars>>

\* the steps of a session's polling thread
poll_step(s) ==
    \/ poll_start(s) \/ poll_snapshot(s) \/ poll_compare(s) \/ poll_display(s)

\* the "Download CSV" button: download_logs_as_csv takes the lock
export_lock(s) ==
    /\ connected[s] = "open"
    /\ \A t \in Sessions : exporter[t] = "idle"
    /\ log_lock = "free"
    /\ log_lock' = MainThread(s)
    /\ exporter' = [exporter EXCEPT ![s] = "iter"]
    /\ UNCHANGED <<log_entries, last_displayed_log_index, connected, poller,
                   panel, log_last>>
    /\ UNCHANGED <<wrapper_vars, time_vars, graph_vars, filter_vars, wizard_vars>>

\* for entry in log_entries: writer.writerow([entry])
export_read(s) ==
    /\ exporter[s] = "iter"
    /\ exporter' = [exporter EXCEPT ![s] = "written"]
    /\ log_last' = (IF log_entries = <<>> THEN log_last
                    ELSE Access(MainThread(s), "csv_read"))
    /\ UNCHANGED <<log_entries, log_lock, last_displayed_log_index, connected,
                   poller, panel>>
    /\ UNCHANGED <<wrapper_vars, time_vars, graph_vars, filter_vars, wizard_vars>>

\* the end of the with block, download(...) and logger.info(...)
export_finish(s) ==
    /\ exporter[s] = "written"
    /\ log_lock' = "free"
    /\ exporter' = [exporter EXCEPT ![s] = "done"]
    /\ log_entries' = emit_entry(log_entries)
    /\ log_last' = [op |-> "append", held |-> FALSE]
    /\ UNCHANGED <<last_displayed_log_index, connected, poller, panel>>
    /\ UNCHANGED <<wrapper_vars, time_vars, graph_vars, filter_vars, wizard_vars>>

---------------------------------------------------------------------------
(* The specifications                                                      *)

\* a wrapper nobody calls
WrapperIdle == wrapper_init(None, FALSE, None)

\* Spec: the setters and setup_application_parameters on a fresh wrapper
Init ==
    /\ \E k \in {None, "k1"}, c \in BOOLEAN, e \in EnvKeys : wrapper_init(k, c, e)
    /\ TimeIdle /\ GraphIdle /\ FilterIdle /\ WizardIdle /\ LogIdle

Next ==
    \/ \E k \in KeyInputs : set_api_key(k)
    \/ \E i \in OrgIdInputs, n \in OrgNameInputs : set_organization_id(i, n)
    \/ \E i \in NetIdInputs, n \in NetNameInputs : set_network_id(i, n)
    \/ \E req \in SetupMaps, params \in SetupParams, c \in CachingArgs :
           setup_application_parameters(req, params, c)

Spec == Init /\ [][Next]_vars

\* SpecCache: the list calls, with the calls that change what they depend on
\* (the key, the selected organization, the caching flag)
CacheInit ==
    /\ \E k \in {None, "k1"}, c \in BOOLEAN : wrapper_init(k, c, None)
    /\ TimeIdle /\ GraphIdle /\ FilterIdle /\ WizardIdle /\ LogIdle

CacheNext ==
    \/ \E k \in {"k1", None} : set_api_key(k)
    \/ \E i \in OrgIds : set_organization_id(i, None)
    \/ \E req \in CacheSetupMaps, params \in CacheSetupParams, c \in CachingArgs :
           setup_application_parameters(req, params, c)
    \/ \E u \in BOOLEAN, out \in OrgOutcomes : list_organizations(u, out)
    \/ \E o \in {"o1", None}, u \in BOOLEAN, f \in {NoFilter, WirelessFilter},
          out \in NetOutcomes :
           list_networks(o, u, NoFilter, f, out)

SpecCache == CacheInit /\ [][CacheNext]_vars

\* SpecTime: the time-window form
TimeInit ==
    WrapperIdle /\ TimeIdle /\ GraphIdle /\ FilterIdle /\ WizardIdle /\ LogIdle

TimeNext ==
    \/ Tick
    \/ \E ok \in BOOLEAN : open_form(ok)
    \/ \E parses \in BOOLEAN, t0 \in Times, t1 \in Times, shown \in {"nodata", "graph"} :
           submit_form(parses, t0, t1, shown)
    \/ back_to_menu

SpecTime == TimeInit /\ [][TimeNext]_vars

\* the user submits a window that the validation accepts and the chart is drawn
submit_accepted ==
    \E t0 \in Times, t1 \in Times :
        /\ reaches_collect(submit_outcome(TRUE, t0, t1, now_utc))
        /\ submit_form(TRUE, t0, t1, "graph")

\* SpecTimeFair: SpecTime with a user who keeps using the controls the page
\* offers: the menu button, the form (with an accepted window, data being
\* available) and the Back button are each used again and again while offered
SpecTimeFair ==
    SpecTime /\ SF_vars(open_form(TRUE)) /\ SF_vars(submit_accepted)
             /\ SF_vars(back_to_menu)

\* SpecGraph: history collection, the chart and its CSV export
GraphInit ==
    WrapperIdle /\ TimeIdle /\ GraphIdle /\ FilterIdle /\ WizardIdle /\ LogIdle

GraphNext ==
    \/ \E nets \in NetworkLists, dash \in BOOLEAN : collect_start(nets, dash)
    \/ \E out \in HistoryOutcomes : collect_step(out)
    \/ collect_return
    \/ display_graph
    \/ download_csv

SpecGraph == GraphInit /\ [][GraphNext]_vars

\* SpecFilter: list_networks on every fetched list and every pair of filters
FilterInit ==
    /\ WrapperIdle /\ TimeIdle /\ GraphIdle /\ WizardIdle /\ LogIdle
    /\ fetched \in FetchedLists
    /\ tags_arg \in TagFilters
    /\ ptypes_arg \in ProductTypeFilters
    /\ listed = NotListed

FilterNext == filter_call

SpecFilter == FilterInit /\ [][FilterNext]_vars

\* SpecWizard: two sessions run app() against the one UI object
WizardInit ==
    /\ WrapperIdle /\ TimeIdle /\ GraphIdle /\ FilterIdle /\ LogIdle
    /\ setup_env \in SetupEnvs
    /\ ui_wrapper = "w0"
    /\ wrappers = [w \in WrapperIds |-> NewWrapper(None, setup_env.env_key)]
    /\ sess = [s \in Sessions |-> NewSession]

WizardNext ==
    \/ \E s \in Sessions : app_start(s)
    \/ \E s \in Sessions : \E entry \in {KeyOf(s), ""} : key_entry(s, entry)
    \/ \E s \in Sessions, out \in OrgOutcomes : retrieve_organizations(s, out)
    \/ \E s \in Sessions, choice \in OrgIds \cup {""} : org_pick(s, choice)
    \/ \E s \in Sessions, out \in NetOutcomes : retrieve_networks(s, out)
    \/ \E s \in Sessions, choice \in NetIds \cup {""} : net_pick(s, choice)
    \/ \E s \in Sessions : check_parameters(s)
    \/ \E s \in Sessions : return_wrapper(s)
    \/ \E s \in Sessions : build_project_ui(s)

SpecWizard == WizardInit /\ [][WizardNext]_vars

\* SpecLog: the sessions' polling threads, log calls and CSV exports
LogInit == WrapperIdle /\ TimeIdle /\ GraphIdle /\ FilterIdle /\ WizardIdle /\ LogIdle

LogNext ==
    \/ \E s \in Sessions : session_open(s)
    \/ \E s \in Sessions : disconnect(s)
    \/ \E s \in Sessions : emit(s)
    \/ \E s \in Sessions : poll_start(s)
    \/ \E s \in Sessions : poll_snapshot(s)
    \/ \E s \in Sessions : poll_compare(s)
    \/ \E s \in Sessions : poll_display(s)
    \/ \E s \in Sessions : export_lock(s)
    \/ \E s \in Sessions : export_read(s)
    \/ \E s \in Sessions : export_finish(s)

SpecLog == LogInit /\ [][LogNext]_vars

\* SpecLogFair: SpecLog with every running thread scheduled again and again: a
\* polling thread takes its next step, and a CSV export that holds the lock goes
\* on to release it. Browsers and the sessions' own logger calls are free to
\* act or not.
SpecLogFair ==
    SpecLog /\ \A s \in Sessions : /\ WF_vars(poll_step(s))
                                   /\ WF_vars(export_read(s))
                                   /\ WF_vars(export_finish(s))

---------------------------------------------------------------------------
(* Claims                                                                  *)

\* a required-parameter map that asks for network_id without organization_id, or
\* for organization_id without api_key
InvalidOrder(m) ==
    \/ Req(m, "network_id") /\ ~Req(m, "organization_id")
    \/ Req(m, "organization_id") /\ ~Req(m, "api_key")

\* C1: setup_application_parameters called with a map that breaks the order
\* returns False and leaves every field of the wrapper as it was, the caching
\* flag included.
C1_InvalidMapLeavesWrapperUnchanged ==
    [][(last'.op = "setup_application_parameters" /\ InvalidOrder(last'.req))
         => (ret' = RetBool(FALSE) /\ UNCHANGED wrapper_fields)]_vars

\* C2: whatever setters were called, a set network id comes with a set
\* organization id, and a set organization id with a set API key.
C2_DependentImpliesPrerequisite ==
    /\ is_attr_set(network_id) => is_attr_set(organization_id)
    /\ is_attr_set(organization_id) => is_attr_set(api_key)

\* what the claim asks of a listed network: no tag filter or one requested tag,
\* and no product-type filter or one requested product type
C3_Wanted(net) ==
    /\ tags_arg.isNone \/ tags_arg.items = {} \/ net.tags \cap tags_arg.items # {}
    /\ ptypes_arg.isNone \/ ptypes_arg.items = {}
       \/ net.productTypes \cap ptypes_arg.items # {}

\* C3: list_networks returns exactly the wanted networks of the fetched list, in
\* the fetched order, each once.
C3_FilterKeepsExactlyWanted ==
    listed.called => listed.result = MapSeq(FormatNet, SelectSeq(fetched, C3_Wanted))

\* both filters given, the first of two networks dropped and the second kept
C3_Witness ==
    /\ listed.called
    /\ FilterGiven(tags_arg) /\ FilterGiven(ptypes_arg)
    /\ Len(fetched) = 2
    /\ Len(listed.result) = 1
    /\ listed.result[1].id = fetched[2].id

\* the four checks of the claim, in its order, and their messages
C4_Fails(start, end, now) ==
    <<end <= start, end > now, start < now - LookbackDays, end > start + LookbackDays>>
C4_Messages == <<"end_not_after_start", "end_in_future", "start_too_old", "span_too_long">>
C4_Expected(start, end, now) ==
    IF \E i \in 1..4 : C4_Fails(start, end, now)[i]
    THEN C4_Messages[CHOOSE i \in 1..4 :
                        /\ C4_Fails(start, end, now)[i]
                        /\ \A j \in 1..(i - 1) : ~C4_Fails(start, end, now)[j]]
    ELSE "collecting"

\* C4: a submitted window that parses ends with the message of the first failing
\* check, in the order end <= start, end > now, start < now - 31 days,
\* end > start + 31 days, and is accepted exactly when no check fails.
C4_FirstFailingCheckDecides ==
    (form.submitted /\ form.parses)
        => toast_msg = C4_Expected(form.t0, form.t1, now_utc)

\* the window [now - 31 days, now] is accepted
C4_Witness ==
    /\ form.submitted /\ form.parses
    /\ form.t1 = now_utc
    /\ form.t0 = now_utc - LookbackDays
    /\ toast_msg = "collecting"

\* C5: collect_network_data_history is called only with a window that was
\* submitted, parsed, and passed the four checks.
C5_CollectOnlyAfterValidation ==
    collect_arg.called
        => /\ form.submitted /\ form.parses
           /\ collect_arg.t0 = form.t0 /\ collect_arg.t1 = form.t1
           /\ ~(form.t1 <= form.t0)
           /\ ~(form.t1 > now_utc)
           /\ ~(form.t0 < now_utc - LookbackDays)
           /\ ~(form.t1 > form.t0 + LookbackDays)

\* a window as old as allowed was collected
C5_Witness ==
    /\ collect_arg.called
    /\ collect_arg.t0 = now_utc - LookbackDays
    /\ collect_arg.t1 > collect_arg.t0

\* the entry of collected_data under a key
C9_EntryOf(key) ==
    (CHOOSE e \in {collected_data[j] : j \in 1..Len(collected_data)} : e.id = key).info

\* C9: with a dashboard client, the dict returned has exactly the ids of the input
\* networks as keys; a network whose upstream call failed has {name, history: []},
\* every other network its name and the history the upstream returned for it.
C9_OneEntryPerNetwork ==
    (pc \in {"collected", "shown", "warned"} /\ has_dashboard)
        => /\ {collected_data[j].id : j \in 1..Len(collected_data)}
                = {networks_list[i].id : i \in 1..Len(networks_list)}
           /\ Len(collected_data) = Len(networks_list)
           /\ \A i \in 1..Len(networks_list) :
                  /\ C9_EntryOf(networks_list[i].id).name
                         = network_name_of(networks_list[i])
                  /\ C9_EntryOf(networks_list[i].id).history
                         = (IF outcomes[i].kind = "ok" THEN outcomes[i].data ELSE <<>>)

\* the first network failed with a vendor error, the second returned samples
C9_Witness ==
    /\ pc = "collected" /\ has_dashboard
    /\ Len(networks_list) = 2
    /\ outcomes[1].kind = "api_error"
    /\ outcomes[2].kind = "ok" /\ outcomes[2].data # <<>>

\* C10: the CSV export has one header row and one row per timestamp, and every
\* row has one column more than there are networks in the collected data.
C10_CsvShape ==
    csv # <<>>
        => /\ Len(csv) = Len(timestamps) + 1
           /\ \A r \in 1..Len(csv) : Len(csv[r]) = Len(collected_data) + 1

\* exported with one network's history empty and the other's two samples long
C10_Witness ==
    /\ csv # <<>>
    /\ Len(collected_data) = 2
    /\ collected_data[1].info.history = <<>>
    /\ Len(collected_data[2].info.history) = 2

\* exported with two histories of different, non-zero lengths
C10_WitnessMismatch ==
    /\ csv # <<>>
    /\ Len(collected_data) = 2
    /\ Len(collected_data[1].info.history) = 2
    /\ Len(collected_data[2].info.history) = 1

\* the cache entries, as the claims speak of them
OrgEntryPresent == ~organizations_cache.isNone
NetEntryPresent(o) == ~networks_cache.isNone /\ networks_cache.dict[o].present
\* the step is a list call with use_cache=true (for organization o)
OrgCachedCall == last'.op = "list_organizations" /\ last'.use_cache
NetCachedCall(o) == last'.op = "list_networks" /\ last'.use_cache /\ last'.key = o
\* the step is a list call that called the upstream (for organization o)
OrgFetch == last'.op = "list_organizations" /\ last'.upstream
NetFetch(o) == last'.op = "list_networks" /\ last'.upstream /\ last'.key = o
\* the records list_organizations / list_networks return for a stored list
ListedOrgs(data) == RetList(MapSeq(FormatOrg, data))
ListedNets(data, ptypes) ==
    RetList(MapSeq(FormatNet,
                   SelectSeq(data, LAMBDA n : ptypes = {} \/ n.productTypes \cap ptypes # {})))

\* C6 as stated: with caching enabled and a list in the cache for the key, every
\* use_cache=true call returns that list and calls no upstream.
C6_CachedCallServedFromCache ==
    [][/\ (enable_caching /\ OrgEntryPresent /\ OrgCachedCall)
            => (~last'.upstream /\ ret' = ListedOrgs(organizations_cache.whole))
       /\ \A o \in OrgIds :
            (enable_caching /\ NetEntryPresent(o) /\ NetCachedCall(o))
                => (~last'.upstream
                    /\ ret' = ListedNets(networks_cache.dict[o].data, last'.ptypes))]_vars

\* C6 amended: with caching enabled a fetched list is stored under its key, and
\* while the dashboard client exists every use_cache=true call for the key
\* returns the stored list and calls no upstream.
C6_CachedCallServedWhileClientExists ==
    [][/\ (enable_caching /\ OrgFetch /\ ret'.tag = "list")
            => (~organizations_cache'.isNone
                /\ ret' = ListedOrgs(organizations_cache'.whole))
       /\ (enable_caching /\ dashboard # None /\ OrgEntryPresent /\ OrgCachedCall)
            => (~last'.upstream /\ ret' = ListedOrgs(organizations_cache.whole))
       /\ \A o \in OrgIds :
            /\ (enable_caching /\ NetFetch(o) /\ ret'.tag = "list")
                 => (~networks_cache'.isNone /\ networks_cache'.dict[o].present
                     /\ ret' = ListedNets(networks_cache'.dict[o].data, last'.ptypes))
            /\ (enable_caching /\ dashboard # None /\ NetEntryPresent(o)
                /\ NetCachedCall(o))
                 => (~last'.upstream
                     /\ ret' = ListedNets(networks_cache.dict[o].data, last'.ptypes))]_vars

\* a use_cache=true list_networks call returned stored networks without a fetch
C6_Witness ==
    /\ last.op = "list_networks" /\ last.use_cache /\ ~last.upstream
    /\ enable_caching
    /\ ret.tag = "list" /\ ret.data # <<>>
    /\ NetEntryPresent(last.key)

\* the step is a fetch that failed
FailedFetch == last'.upstream /\ ret'.tag = "error"

\* C7 as stated: with caching enabled a failed fetch stores an empty list for the
\* key, every later use_cache=true call for the key returns the empty list
\* without an upstream call, and the empty entry stays until restart.
C7_FailureCachedUntilRestart ==
    [][/\ (enable_caching /\ OrgFetch /\ FailedFetch)
            => (~organizations_cache'.isNone /\ organizations_cache'.whole = <<>>)
       /\ (enable_caching /\ OrgEntryPresent /\ organizations_cache.whole = <<>>)
            => /\ ~organizations_cache'.isNone /\ organizations_cache'.whole = <<>>
               /\ OrgCachedCall => (~last'.upstream /\ ret' = RetList(<<>>))
       /\ \A o \in OrgIds :
            /\ (enable_caching /\ NetFetch(o) /\ FailedFetch)
                 => (NetEntryPresent(o)' /\ networks_cache'.dict[o].data = <<>>)
            /\ (enable_caching /\ NetEntryPresent(o) /\ networks_cache.dict[o].data = <<>>)
                 => /\ NetEntryPresent(o)' /\ networks_cache'.dict[o].data = <<>>
                    /\ NetCachedCall(o) => (~last'.upstream /\ ret' = RetList(<<>>))]_vars

\* C7 amended: with caching enabled a failed fetch stores an empty list for the
\* key; while that empty entry is in the cache and the dashboard client exists,
\* every use_cache=true call for the key returns the empty list without an
\* upstream call.
C7_FailureCachedWhileEntryStays ==
    [][/\ (enable_caching /\ OrgFetch /\ FailedFetch)
            => (~organizations_cache'.isNone /\ organizations_cache'.whole = <<>>)
       /\ (enable_caching /\ dashboard # None /\ OrgEntryPresent
           /\ organizations_cache.whole = <<>> /\ OrgCachedCall)
            => (~last'.upstream /\ ret' = RetList(<<>>))
       /\ \A o \in OrgIds :
            /\ (enable_caching /\ NetFetch(o) /\ FailedFetch)
                 => (NetEntryPresent(o)' /\ networks_cache'.dict[o].data = <<>>)
            /\ (enable_caching /\ dashboard # None /\ NetEntryPresent(o)
                /\ networks_cache.dict[o].data = <<>> /\ NetCachedCall(o))
                 => (~last'.upstream /\ ret' = RetList(<<>>))]_vars

\* a vendor error on list_organizations left an empty list in the cache
C7_Witness ==
    /\ last.op = "list_organizations" /\ last.upstream
    /\ ret.tag = "error" /\ ret.error = "MerakiAPIError"
    /\ enable_caching
    /\ OrgEntryPresent /\ organizations_cache.whole = <<>>

\* C8 as stated: a cache entry, once present, is never changed or removed.
C8_EntryNeverChanges ==
    [][/\ OrgEntryPresent => organizations_cache' = organizations_cache
       /\ \A o \in OrgIds :
            NetEntryPresent(o)
                => (NetEntryPresent(o)' /\ networks_cache'.dict[o] = networks_cache.dict[o])]_vars

\* C8 amended: a cache entry, once present, is never removed, and is changed only
\* by a list call for its key made with use_cache=false while caching is enabled,
\* which fetches again and stores the new result.
C8_EntryChangesOnlyOnRefetch ==
    [][/\ OrgEntryPresent
            => /\ ~organizations_cache'.isNone
               /\ organizations_cache'.whole # organizations_cache.whole
                    => (OrgFetch /\ ~last'.use_cache /\ enable_caching)
       /\ \A o \in OrgIds :
            NetEntryPresent(o)
                => /\ NetEntryPresent(o)'
                   /\ networks_cache'.dict[o] # networks_cache.dict[o]
                        => (NetFetch(o) /\ ~last'.use_cache /\ enable_caching)]_vars

\* the API key was cleared and the cached organizations are still there
C8_Witness ==
    /\ last.op = "set_api_key" /\ api_key = None
    /\ OrgEntryPresent /\ organizations_cache.whole # <<>>

\* C11: in the CSV export the cell of network j at timestamp index i is the
\* network's integer client count for sample i, and 0 when the count is missing
\* (no sample i, no clientCount field, or a null clientCount).
C11_CsvCellIsCountOrZero ==
    csv # <<>>
        => \A i \in 1..Len(timestamps) : \A j \in 1..Len(collected_data) :
              LET h == collected_data[j].info.history
              IN  csv[i + 1][j + 1]
                    = IntCell(IF i <= Len(h) /\ h[i].clientCount.kind = "int"
                              THEN h[i].clientCount.v ELSE 0)

\* the error kinds of the list calls
NotConfiguredKinds == {"DashboardAPIError", "ConfigurationError", "NoOrganizationSelected"}
\* the step is a call of list_organizations or list_networks
ListCall == last'.op \in {"list_organizations", "list_networks"}

\* C19: list_organizations and list_networks return a list of records or a tagged
\* error; the kind is a not-configured one exactly when the call stopped before the
\* upstream because the client or the organization was missing, and after an
\* upstream failure it is the API-error kind, which alone carries the status code,
\* or the unexpected-error kind.
C19_ListCallReturnsListOrTaggedError ==
    [][ListCall =>
          /\ ret'.tag \in {"list", "error"}
          /\ ret'.tag = "error" =>
               /\ ret'.error \in NotConfiguredKinds \cup {"MerakiAPIError", "UnexpectedError"}
               /\ ret'.error \in NotConfiguredKinds <=> ~last'.upstream
               /\ ret'.error \in NotConfiguredKinds
                    => \/ dashboard = None
                       \/ last'.op = "list_networks" /\ last'.key = None
               /\ ret'.error = "MerakiAPIError" <=> ret'.status
               /\ ret'.data = <<>>]_vars

\* list_networks came back with the vendor's error and its status code
C19_Witness ==
    /\ last.op = "list_networks" /\ last.upstream
    /\ ret.tag = "error" /\ ret.error = "MerakiAPIError" /\ ret.status

\* the session takes this step
Steps(s) == sess'[s] # sess[s]
\* app_setup of the session has returned a wrapper
ReturnedWrapper(ss) == ss.result \notin {"running", "sentinel"}
\* neither app_setup_param nor the environment supplies an API key
KeyAbsent == setup_env.env_key = None /\ setup_env.params.api_key = None

\* C12: app_setup ends by returning the wrapper or the failure sentinel; when it
\* returns the wrapper, every required parameter is set on it and the organization
\* id (and the network id, when required) is in the list fetched during that run.
C12_ReturnedWrapperIsConfigured ==
    [][\A s \in Sessions :
          /\ sess'[s].pc \in {"returned", "end"} => sess'[s].result # "running"
          /\ (~ReturnedWrapper(sess[s]) /\ ReturnedWrapper(sess'[s]))
               => LET wr == wrappers'[sess'[s].result]
                      req == setup_env.required
                  IN  /\ Req(req, "api_key") => is_attr_set(wr.api_key)
                      /\ Req(req, "organization_id")
                           => /\ is_attr_set(wr.organization_id)
                              /\ InList(wr.organization_id, sess[s].organizations)
                      /\ Req(req, "network_id")
                           => /\ is_attr_set(wr.network_id)
                              /\ InList(wr.network_id, sess[s].networks)]_vars

\* C13: when the organization-list fetch gives an error or an empty list, the
\* session shows an error, gets the failure sentinel and is never prompted for an
\* organization; likewise for the network list and the network prompt.
C13_FailedFetchAbortsWithoutPrompt ==
    \A s \in Sessions :
       /\ sess[s].orgs_result \in {"error", "empty"}
            => /\ Req(setup_env.required, "organization_id")
               /\ sess[s].result = "sentinel"
               /\ "organizations_error" \in sess[s].toasts
               /\ ~sess[s].org_prompted
       /\ sess[s].nets_result \in {"error", "empty"}
            => /\ Req(setup_env.required, "network_id")
               /\ sess[s].result = "sentinel"
               /\ "networks_error" \in sess[s].toasts
               /\ ~sess[s].net_prompted

\* one session stopped on an empty organization list, the other on a failed
\* network fetch after its organization was selected
C13_Witness ==
    /\ sess["s1"].orgs_result = "empty" /\ sess["s1"].org_fetched
    /\ sess["s2"].nets_result = "error" /\ sess["s2"].net_fetched
    /\ sess["s2"].picked_org # None

C15_PromptAndAccept(s) ==
    /\ (sess[s].pc = "new" /\ Steps(s) /\ Req(setup_env.required, "api_key") /\ KeyAbsent)
         => sess'[s].pc = "key_prompt"
    /\ (sess[s].pc = "key_prompt" /\ Steps(s) /\ sess'[s].entered_key # None)
         => /\ wrappers'[ui_wrapper].api_key = sess'[s].entered_key
            /\ sess'[s].pc = after_key(setup_env.required)
            /\ sess'[s].result = "running"
            /\ ~sess'[s].org_fetched /\ ~sess'[s].net_fetched

C18_SessionOwnsItsWrapper ==
    \A s \in Sessions :
       ReturnedWrapper(sess[s])
         => /\ sess[s].result = WrapperOf(s)
            /\ LET wr == wrappers[sess[s].result]
               IN  /\ sess[s].entered_key # None => wr.api_key = sess[s].entered_key
                   /\ sess[s].picked_org # None => wr.organization_id = sess[s].picked_org
                   /\ sess[s].picked_net # None => wr.network_id = sess[s].picked_net

\* the entries the buffer can come to hold: MaxLog from the sessions' own
\* threads, two per polling thread (start, stop) and one per CSV export
LogCapacity == MaxLog + 2 * Cardinality(Sessions) + 1

\* C16: after a session's client has disconnected, the session's polling thread
\* eventually terminates, whatever is logged afterwards.
C16_PollerStopsAfterDisconnect ==
    \A s \in Sessions : (connected[s] = "closed") ~> (poller[s].pc = "stopped")

\* C17: every append to the log buffer and every read of it (length snapshot,
\* entry read for display, CSV export) is made by a thread that holds the
\* log_entries_lock at that moment.
C17_BufferAccessHoldsLock ==
    log_last.op # "none" => log_last.held

\* entry i of the buffer has been put in the log panel of the session
Shown(s, i) == \E k \in 1..Len(panel[s]) : panel[s][k] = i

\* C20: with two sessions connected, an entry appended while both are connected
\* is eventually shown in the log panel of each session (unless that session
\* disconnects first).
C20_EntryShownInBothPanels ==
    \A s \in Sessions : \A i \in 1..LogCapacity :
        (i <= Len(log_entries) /\ log_entries[i].both)
            ~> (Shown(s, i) \/ connected[s] = "closed")

\* the session has been shown a prompt (API key, organization or network)
Prompted(ss) ==
    \/ ss.pc \in {"key_prompt", "org_prompt", "net_prompt"}
    \/ ss.entered_key # None \/ "api_key_required" \in ss.toasts
    \/ ss.org_prompted \/ ss.net_prompted

\* C21: with a required map that breaks the order (network without
\* organization, or organization without API key) app_setup shows no prompt,
\* makes no upstream fetch and returns the failure sentinel.
C21_InvalidMapGatesWizard ==
    InvalidOrder(setup_env.required)
        => \A s \in Sessions :
              /\ ~Prompted(sess[s])
              /\ ~sess[s].org_fetched /\ ~sess[s].net_fetched
              /\ ~ReturnedWrapper(sess[s])

\* C22: after any sequence of setup_application_parameters calls the stored
\* required map has network_id required only with organization_id required, and
\* organization_id required only with api_key required.
C22_StoredMapKeepsOrder ==
    /\ Req(required_app_setup_param, "network_id")
         => Req(required_app_setup_param, "organization_id")
    /\ Req(required_app_setup_param, "organization_id")
         => Req(required_app_setup_param, "api_key")

\* a call with an out-of-order map was made on a wrapper that holds a map with
\* all three parameters required
C22_Witness ==
    /\ last.op = "setup_application_parameters"
    /\ InvalidOrder(last.req)
    /\ Req(required_app_setup_param, "network_id")

\* the networks of the collected data whose history is non-empty and as long as
\* the x axis, in dict order
SameLengthNetworks ==
    SelectSeq(collected_data,
              LAMBDA e : e.info.history # <<>> /\ Len(e.info.history) = Len(timestamps))

\* a client count with null (and a missing key) counted as 0
CountOrZero(entry) == IF entry.clientCount.kind = "int" THEN entry.clientCount.v ELSE 0

\* the sum of sample i over the first n networks of a list
RECURSIVE SumAt(_, _, _)
SumAt(nets, n, i) ==
    IF n = 0 THEN 0 ELSE SumAt(nets, n - 1, i) + CountOrZero(nets[n].info.history[i])

SingleSession == connected["s2"] = "new"

\* C24: with a single session, the log panel shows a prefix of the buffer, each
\* entry once and in append order; the last-displayed index never decreases,
\* never exceeds the buffer length, and between two polls equals the number of
\* entries shown.
C24_PanelIsPrefixOfBuffer ==
    [][SingleSession'
         => /\ panel'["s1"] = [k \in 1..Len(panel'["s1"]) |-> k]
            /\ Len(panel'["s1"]) <= Len(log_entries')
            /\ last_displayed_log_index' >= last_displayed_log_index
            /\ last_displayed_log_index' <= Len(log_entries')
            /\ poller'["s1"].pc = "lock"
                 => last_displayed_log_index' = Len(panel'["s1"])]_vars

\* the single session has been shown three entries and is between two polls,
\* with a fourth entry, logged by its CSV export, not yet shown
C24_Witness ==
    /\ SingleSession
    /\ poller["s1"].pc = "lock"
    /\ panel["s1"] = <<1, 2, 3>>
    /\ Len(log_entries) = 4
    /\ exporter["s1"] = "done"

\* C25: from every screen reached after the menu (the form, a rejected window, a
\* parse error, a no-data warning, the chart) the user can get back to the main
\* menu with the controls of the page.
C25_MenuAlwaysReachable ==
    (ui # "menu") ~> (ui = "menu")

\* C26: a submitted form that parses gets the outcome of the four checks taken
\* against the UTC time at the moment it is submitted, however long the form was
\* on the page.
C26_ValidatedAgainstSubmitTime ==
    [][(ui = "form" /\ ui' # "form" /\ form'.parses)
         => toast_msg' = C4_Expected(form'.t0, form'.t1, clock')]_vars

\* C27: a window that passes the first three checks (end > start, end <= now,
\* start >= now - 31 days) spans at most 31 days: the fourth rejection and its
\* message never occur.
C27_SpanCheckNeverFails ==
    /\ toast_msg # "span_too_long"
    /\ (form.submitted /\ form.parses /\ form.t1 > form.t0 /\ form.t1 <= now_utc
           /\ form.t0 >= now_utc - LookbackDays)
          => /\ form.t1 <= form.t0 + LookbackDays
             /\ toast_msg = "collecting"

\* the widest window that passes the three checks was submitted: it spans
\* exactly 31 days
C27_Witness ==
    /\ form.submitted /\ form.parses
    /\ form.t0 = now_utc - LookbackDays
    /\ form.t1 = now_utc
    /\ form.t1 = form.t0 + LookbackDays
    /\ clock > now_utc

\* what C28 allows a call made with (id_value, name_value) to do to an
\* (id, name) pair: leave it alone, or hold the new id with the name supplied
\* with it, or with no name when none was supplied
C28_KeepsPair(cur_id, cur_name, new_id, new_name, id_value, name_value) ==
    \/ new_id = cur_id /\ new_name = cur_name
    \/ /\ Truthy(id_value) /\ new_id = id_value
       /\ new_name = (IF Truthy(name_value) THEN name_value ELSE None)

\* C28: whatever setter is called, the organization name held afterwards is
\* unset or the name supplied together with the organization id now held, and
\* never one left over from an earlier id; likewise for the network.
C28_NameBelongsToId ==
    [][/\ last'.op = "set_organization_id"
            => \A i \in OrgIdInputs, n \in OrgNameInputs :
                  set_organization_id(i, n)
                     => C28_KeepsPair(organization_id, organization_name,
                                      organization_id', organization_name', i, n)
       /\ last'.op = "set_network_id"
            => \A i \in NetIdInputs, n \in NetNameInputs :
                  set_network_id(i, n)
                     => C28_KeepsPair(network_id, network_name,
                                      network_id', network_name', i, n)
       /\ last'.op = "setup_application_parameters"
            => \A params \in SetupParams, c \in CachingArgs :
                  setup_application_parameters(last'.req, params, c)
                     => /\ C28_KeepsPair(organization_id, organization_name,
                                         organization_id', organization_name',
                                         params.organization_id, params.org_name)
                        /\ C28_KeepsPair(network_id, network_name,
                                         network_id', network_name',
                                         params.network_id, params.net_name)]_vars

\* C29: when setup_application_parameters has just returned True, a call of
\* check_current_parameters_status returns (True, []).
C29_SetupTrueImpliesStatusTrue ==
    (last.op = "setup_application_parameters" /\ ret = RetBool(TRUE))
        => check_current_parameters_status(
               [api_key |-> api_key, organization_id |-> organization_id,
                network_id |-> network_id, required |-> required_app_setup_param])

\* C30: a run of app_setup that returns the wrapper has not shown the persistent
\* 'Initial application parameter setup failed' notification.
C30_SetupFailedToastOnlyOnFailure ==
    \A s \in Sessions :
        ReturnedWrapper(sess[s]) => "initial_setup_failed" \notin sess[s].toasts

====
